---- MODULE Spec2Model ----
(***************************************************************************)
(* The fraud-detection engine of src/ai_logic.py: the rule catalog of      *)
(* FraudDetectionAI, its accumulator (detected_flags, risk_score), the     *)
(* tier classifier, and the shared instance ai_engine on which callers     *)
(* run analyze; and the /api/analyze handler of src/app.py, which          *)
(* validates a request, runs the engine and saves the result.              *)
(*                                                                         *)
(* A Python string is a sequence of one-character strings, so that lower,  *)
(* split, strip, substring tests and the salary regular expression are     *)
(* computed character by character.                                        *)
(***************************************************************************)
EXTENDS Integers, Sequences, FiniteSets, TLC

VARIABLES
  heap,            \* the live list objects: list id -> sequence of flag dicts
  detected_flags,  \* ai_engine.detected_flags: the id of a list in heap
  risk_score,      \* ai_engine.risk_score
  pc,              \* per caller: the statement of analyze it is about to run
  args,            \* per caller: the arguments of its current analyze call
  classification,  \* per caller: the local variable classification of analyze
  result,          \* per caller: what its last analyze call handed back
  call_count,      \* the number of analyze calls made on ai_engine so far
  handler_pc,      \* the statement of analyze_job (src/app.py) the handler is at
  request,         \* the JSON data of the request the handler last received
  session,         \* db.session: the rows of the open transaction
  store,           \* the database: the committed rows of the tables jobs and flags
  response         \* the response the handler last sent

handler_vars == <<handler_pc, request, session, store, response>>

vars == <<heap, detected_flags, risk_score, pc, args, classification, result, call_count,
          handler_pc, request, session, store, response>>

(***************************************************************************)
(* Python strings                                                          *)
(***************************************************************************)
UpperToLower ==
  [ c \in {"A","B","C","D","E","F","G","H","I","J","K","L","M","N","O","P","Q","R","S","T","U","V","W","X","Y","Z"} |->
      CASE c = "A" -> "a"
        [] c = "B" -> "b"
        [] c = "C" -> "c"
        [] c = "D" -> "d"
        [] c = "E" -> "e"
        [] c = "F" -> "f"
        [] c = "G" -> "g"
        [] c = "H" -> "h"
        [] c = "I" -> "i"
        [] c = "J" -> "j"
        [] c = "K" -> "k"
        [] c = "L" -> "l"
        [] c = "M" -> "m"
        [] c = "N" -> "n"
        [] c = "O" -> "o"
        [] c = "P" -> "p"
        [] c = "Q" -> "q"
        [] c = "R" -> "r"
        [] c = "S" -> "s"
        [] c = "T" -> "t"
        [] c = "U" -> "u"
        [] c = "V" -> "v"
        [] c = "W" -> "w"
        [] c = "X" -> "x"
        [] c = "Y" -> "y"
        [] c = "Z" -> "z" ]

(* str.lower(), one character *)
LowerChar(c) == IF c \in DOMAIN UpperToLower THEN UpperToLower[c] ELSE c

(* str.lower() *)
lower(s) == [i \in 1..Len(s) |-> LowerChar(s[i])]

(* Python's `k in s` for strings: k occurs in s as a contiguous substring *)
Contains(s, k) ==
  \E i \in 0..(Len(s) - Len(k)) : \A j \in 1..Len(k) : s[i + j] = k[j]

IsSpace(c) == c \in {" ", "\t", "\n", "\r"}

(* str.split(sep) for a one-character separator: the pieces between separators *)
RECURSIVE split(_, _)
split(s, sep) ==
  IF \A i \in 1..Len(s) : s[i] # sep
    THEN <<s>>
    ELSE LET p == CHOOSE i \in 1..Len(s) :
                    s[i] = sep /\ \A j \in 1..(i - 1) : s[j] # sep
         IN  <<SubSeq(s, 1, p - 1)>> \o split(SubSeq(s, p + 1, Len(s)), sep)

(* str.split() without arguments: the maximal runs of non-whitespace characters *)
RECURSIVE split_ws(_)
split_ws(s) ==
  IF \A i \in 1..Len(s) : IsSpace(s[i])
    THEN <<>>
    ELSE LET a == CHOOSE i \in 1..Len(s) :
                    ~IsSpace(s[i]) /\ \A j \in 1..(i - 1) : IsSpace(s[j])
             b == CHOOSE i \in a..Len(s) :
                    /\ \A j \in a..i : ~IsSpace(s[j])
                    /\ (i = Len(s) \/ IsSpace(s[i + 1]))
         IN  <<SubSeq(s, a, b)>> \o split_ws(SubSeq(s, b + 1, Len(s)))

(* str.strip(): leading and trailing whitespace removed *)
strip(s) ==
  IF \A i \in 1..Len(s) : IsSpace(s[i])
    THEN <<>>
    ELSE LET a == CHOOSE i \in 1..Len(s) :
                    ~IsSpace(s[i]) /\ \A j \in 1..(i - 1) : IsSpace(s[j])
             b == CHOOSE i \in 1..Len(s) :
                    ~IsSpace(s[i]) /\ \A j \in (i + 1)..Len(s) : IsSpace(s[j])
         IN  SubSeq(s, a, b)

(* str.count(c) for a one-character c *)
count(s, c) == Cardinality({i \in 1..Len(s) : s[i] = c})

(* str.replace(c, '') for a one-character c *)
remove(s, c) == SelectSeq(s, LAMBDA x : x # c)

DigitValue ==
  [c \in {"0","1","2","3","4","5","6","7","8","9"} |->
      CASE c = "0" -> 0 [] c = "1" -> 1 [] c = "2" -> 2 [] c = "3" -> 3 [] c = "4" -> 4
        [] c = "5" -> 5 [] c = "6" -> 6 [] c = "7" -> 7 [] c = "8" -> 8 [] c = "9" -> 9 ]

IsDigit(c) == c \in DOMAIN DigitValue

(* re.findall(r'[\d,]+', s): the maximal runs of digits and commas, left to right *)
InNumberClass(c) == IsDigit(c) \/ c = ","

RECURSIVE findall_numbers(_)
findall_numbers(s) ==
  IF \A i \in 1..Len(s) : ~InNumberClass(s[i])
    THEN <<>>
    ELSE LET a == CHOOSE i \in 1..Len(s) :
                    InNumberClass(s[i]) /\ \A j \in 1..(i - 1) : ~InNumberClass(s[j])
             b == CHOOSE i \in a..Len(s) :
                    /\ \A j \in a..i : InNumberClass(s[j])
                    /\ (i = Len(s) \/ ~InNumberClass(s[i + 1]))
         IN  <<SubSeq(s, a, b)>> \o findall_numbers(SubSeq(s, b + 1, Len(s)))

(* int(s) for a string of decimal digits; the empty string is a ValueError *)
RECURSIVE DecimalValue(_)
DecimalValue(s) ==
  IF s = <<>> THEN 0
  ELSE 10 * DecimalValue(SubSeq(s, 1, Len(s) - 1)) + DigitValue[s[Len(s)]]

(* the empty string read as 0 *)
int_empty_is_zero(s) ==
  IF \A i \in 1..Len(s) : IsDigit(s[i])
    THEN [ok |-> TRUE, value |-> DecimalValue(s)]
    ELSE [ok |-> FALSE, value |-> 0]

int(s) ==
  IF s # <<>> /\ \A i \in 1..Len(s) : IsDigit(s[i])
    THEN [ok |-> TRUE, value |-> DecimalValue(s)]
    ELSE [ok |-> FALSE, value |-> 0]

(* An optional argument: None, or a string *)
None == [is_none |-> TRUE, str |-> <<>>]
Some(s) == [is_none |-> FALSE, str |-> s]

(* Python's `not x` for an optional string: None and '' are falsy *)
Falsy(x) == x.is_none \/ x.str = <<>>

(***************************************************************************)
(* CONFIGURATION & RULES (src/ai_logic.py, lines 13-35)                    *)
(***************************************************************************)
(* The free e-mail domains.  Python keeps them in a set; membership is all the code asks. *)
FREE_EMAIL_DOMAINS ==
  { <<"g","m","a","i","l",".","c","o","m">>,
    <<"y","a","h","o","o",".","c","o","m">>,
    <<"o","u","t","l","o","o","k",".","c","o","m">>,
    <<"h","o","t","m","a","i","l",".","c","o","m">>,
    <<"m","a","i","l",".","c","o","m">>,
    <<"p","r","o","t","o","n","m","a","i","l",".","c","o","m">>,
    <<"y","a","n","d","e","x",".","c","o","m">>,
    <<"a","o","l",".","c","o","m">>,
    <<"i","c","l","o","u","d",".","c","o","m">>,
    <<"m","a","i","l",".","r","u">>,
    <<"t","e","m","p","-","m","a","i","l",".","o","r","g">> }

(* The keyword lists, one per category, in the order the source lists them.  A keyword is kept
   as its characters (for matching) and as its text (for a flag's description). *)
SUSPICIOUS_KEYWORDS ==
  [ urgency |->
      << [text |-> "urgent", chars |-> <<"u","r","g","e","n","t">>],
         [text |-> "asap", chars |-> <<"a","s","a","p">>],
         [text |-> "immediately", chars |-> <<"i","m","m","e","d","i","a","t","e","l","y">>],
         [text |-> "within 24 hours", chars |-> <<"w","i","t","h","i","n"," ","2","4"," ","h","o","u","r","s">>],
         [text |-> "apply now", chars |-> <<"a","p","p","l","y"," ","n","o","w">>],
         [text |-> "limited time", chars |-> <<"l","i","m","i","t","e","d"," ","t","i","m","e">>] >>,
    money_request |->
      << [text |-> "payment", chars |-> <<"p","a","y","m","e","n","t">>],
         [text |-> "fee", chars |-> <<"f","e","e">>],
         [text |-> "registration", chars |-> <<"r","e","g","i","s","t","r","a","t","i","o","n">>],
         [text |-> "processing", chars |-> <<"p","r","o","c","e","s","s","i","n","g">>],
         [text |-> "verification fee", chars |-> <<"v","e","r","i","f","i","c","a","t","i","o","n"," ","f","e","e">>],
         [text |-> "advance payment", chars |-> <<"a","d","v","a","n","c","e"," ","p","a","y","m","e","n","t">>] >>,
    unrealistic_benefits |->
      << [text |-> "unlimited leaves", chars |-> <<"u","n","l","i","m","i","t","e","d"," ","l","e","a","v","e","s">>],
         [text |-> "no work", chars |-> <<"n","o"," ","w","o","r","k">>],
         [text |-> "from home no work", chars |-> <<"f","r","o","m"," ","h","o","m","e"," ","n","o"," ","w","o","r","k">>],
         [text |-> "easy money", chars |-> <<"e","a","s","y"," ","m","o","n","e","y">>],
         [text |-> "passive income", chars |-> <<"p","a","s","s","i","v","e"," ","i","n","c","o","m","e">>] >>,
    copy_paste |->
      << [text |-> "dear applicant", chars |-> <<"d","e","a","r"," ","a","p","p","l","i","c","a","n","t">>],
         [text |-> "dear candidate", chars |-> <<"d","e","a","r"," ","c","a","n","d","i","d","a","t","e">>],
         [text |-> "dear applicants", chars |-> <<"d","e","a","r"," ","a","p","p","l","i","c","a","n","t","s">>] >>,
    guaranteed |->
      << [text |-> "guaranteed", chars |-> <<"g","u","a","r","a","n","t","e","e","d">>],
         [text |-> "promise", chars |-> <<"p","r","o","m","i","s","e">>],
         [text |-> "certainly", chars |-> <<"c","e","r","t","a","i","n","l","y">>],
         [text |-> "assured", chars |-> <<"a","s","s","u","r","e","d">>],
         [text |-> "definitely hired", chars |-> <<"d","e","f","i","n","i","t","e","l","y"," ","h","i","r","e","d">>] >>,
    work_from_home_too_good |->
      << [text |-> "work from anywhere", chars |-> <<"w","o","r","k"," ","f","r","o","m"," ","a","n","y","w","h","e","r","e">>],
         [text |-> "no experience needed", chars |-> <<"n","o"," ","e","x","p","e","r","i","e","n","c","e"," ","n","e","e","d","e","d">>],
         [text |-> "earn 5000/day", chars |-> <<"e","a","r","n"," ","5","0","0","0","/","d","a","y">>],
         [text |-> "earn while you sleep", chars |-> <<"e","a","r","n"," ","w","h","i","l","e"," ","y","o","u"," ","s","l","e","e","p">>] >> ]

(* The word lists the rules carry in their bodies (lines 242, 205, 208, 258) *)
common_misspellings ==
  << <<"r","e","c","i","e","v","e">>,
     <<"o","c","c","u","r","e","d">>,
     <<"s","u","c","e","s","s","f","u","l">>,
     <<"a","p","p","l","i","c","a","t","o","n">>,
     <<"s","e","p","e","r","e","t","e">> >>

internship_words ==
  << <<"i","n","t","e","r","n">>,
     <<"a","p","p","r","e","n","t","i","c","e">>,
     <<"f","r","e","s","h","e","r">> >>

entry_level_words ==
  << <<"j","u","n","i","o","r">>,
     <<"e","n","t","r","y">>,
     <<"a","s","s","o","c","i","a","t","e">> >>

legitimacy_words ==
  << <<"p","r","i","v","a","t","e">>,
     <<"l","i","m","i","t","e","d">>,
     <<"c","o","r","p","o","r","a","t","i","o","n">>,
     <<"i","n","t","e","r","n","a","t","i","o","n","a","l">> >>

UNREALISTIC_SALARY_THRESHOLDS ==
  [ internship  |-> [min |-> 5000,   max |-> 500000],
    entry_level |-> [min |-> 200000, max |-> 3000000],
    mid_level   |-> [min |-> 500000, max |-> 5000000] ]

(***************************************************************************)
(* INDIVIDUAL DETECTION RULES                                              *)
(*                                                                         *)
(* A rule routine is modelled by what it does to the engine: the calls of  *)
(* _add_flag it makes, in order, and the exception it raises, if any       *)
(* (error = "" when it returns normally).  The variable part of a flag's   *)
(* description (the f-string's fields) is kept as words and a number n.    *)
(***************************************************************************)
AddFlagCall(flag_type, words, n, severity, score_impact) ==
  [ flag_type    |-> flag_type,
    description  |-> [words |-> words, n |-> n],
    severity     |-> severity,
    score_impact |-> score_impact ]

NoCalls == <<>>

Returns(calls) == [error |-> "", calls |-> calls]
Raises(error, calls) == [error |-> error, calls |-> calls]

(* any(word in s for word in words) *)
AnyIn(words, s) == \E i \in 1..Len(words) : Contains(s, words[i])

(* sum(1 for word in words if word in s) *)
CountIn(words, s) == Cardinality({i \in 1..Len(words) : Contains(s, words[i])})

KeywordChars(category) ==
  [i \in 1..Len(SUSPICIOUS_KEYWORDS[category]) |-> SUSPICIOUS_KEYWORDS[category][i].chars]

(* the last piece taken instead, email.split('@')[-1]: never an IndexError *)
domain_part_last(email) ==
  LET parts == split(email, "@") IN [ok |-> TRUE, str |-> parts[Len(parts)]]

(* email.split('@')[1] (lines 99 and 270): the piece after the first '@'; the
   subscript raises IndexError when the address holds no '@' *)
domain_part(email) ==
  LET parts == split(email, "@") IN
  IF Len(parts) < 2
    THEN [ok |-> FALSE, str |-> <<>>]
    ELSE [ok |-> TRUE, str |-> parts[2]]

_check_email_domain(email) ==
  LET part == domain_part(email) IN
  IF ~part.ok
    THEN Raises("IndexError", NoCalls)
    ELSE LET domain == lower(part.str) IN
         IF domain \in FREE_EMAIL_DOMAINS
           THEN Returns(<<AddFlagCall("Free Email Domain", domain, 0, "high", 15)>>)
           ELSE Returns(NoCalls)

_check_missing_website(website, company_name) ==
  IF Falsy(website)
    THEN Returns(<<AddFlagCall("Missing Company Website", <<>>, 0, "high", 12)>>)
    ELSE Returns(NoCalls)

(* found_keywords[category], as the list of the matched keywords' texts; the
   empty list stands for a category that is not a key of found_keywords *)
found_keywords(description, category) ==
  LET hits == SelectSeq(SUSPICIOUS_KEYWORDS[category],
                        LAMBDA keyword : Contains(description, keyword.chars))
  IN  [i \in 1..Len(hits) |-> hits[i].text]

_check_suspicious_keywords(description) ==
  LET money == found_keywords(description, "money_request")
      guar  == found_keywords(description, "guaranteed")
      wfh   == found_keywords(description, "work_from_home_too_good")
  IN  Returns(
        (IF money # <<>>
           THEN <<AddFlagCall("Payment Request", money, 0, "critical", 25)>>
           ELSE NoCalls)
        \o
        (IF guar # <<>>
           THEN <<AddFlagCall("Unrealistic Guarantees", guar, 0, "high", 18)>>
           ELSE NoCalls)
        \o
        (IF wfh # <<>>
           THEN <<AddFlagCall("Unrealistic Work-from-Home Offer", wfh, 0, "high", 16)>>
           ELSE NoCalls))

(* one flag for every urgency keyword found, once there are two *)
_check_urgency_per_keyword(description) ==
  LET urgency_count == CountIn(KeywordChars("urgency"), description) IN
  IF urgency_count >= 2
    THEN Returns([i \in 1..urgency_count |->
                    AddFlagCall("Excessive Urgency", <<>>, urgency_count, "medium", 10)])
    ELSE Returns(NoCalls)

(* the flag raised for exactly two urgency keywords only *)
_check_urgency_exactly_two(description) ==
  LET urgency_count == CountIn(KeywordChars("urgency"), description) IN
  IF urgency_count = 2
    THEN Returns(<<AddFlagCall("Excessive Urgency", <<>>, urgency_count, "medium", 10)>>)
    ELSE Returns(NoCalls)

_check_urgency_language(description) ==
  LET urgency_count == CountIn(KeywordChars("urgency"), description) IN
  IF urgency_count >= 2
    THEN Returns(<<AddFlagCall("Excessive Urgency", <<>>, urgency_count, "medium", 10)>>)
    ELSE Returns(NoCalls)

_check_copy_paste_content(description) ==
  LET generic_count == CountIn(KeywordChars("copy_paste"), description) IN
  IF generic_count > 0
    THEN Returns(<<AddFlagCall("Generic/Copy-Paste Content", <<>>, 0, "medium", 8)>>)
    ELSE Returns(NoCalls)

_check_unrealistic_benefits(description) ==
  IF AnyIn(KeywordChars("unrealistic_benefits"), description)
    THEN Returns(<<AddFlagCall("Unrealistic Benefits", <<>>, 0, "high", 14)>>)
    ELSE Returns(NoCalls)

(* the entry-level words looked for before the internship words *)
job_level_entry_first(job_title) ==
  LET title_lower == lower(job_title) IN
  IF AnyIn(entry_level_words, title_lower) THEN "entry_level"
  ELSE IF AnyIn(internship_words, title_lower) THEN "internship"
  ELSE "mid_level"

(* lines 203-213: the band of the title *)
job_level(job_title) ==
  LET job_title_lower == lower(job_title) IN
  IF AnyIn(internship_words, job_title_lower) THEN "internship"
  ELSE IF AnyIn(entry_level_words, job_title_lower) THEN "entry_level"
  ELSE "mid_level"

(* lines 193-201: the integer of the first run of digits and commas; ok is
   FALSE where the routine returns early (no run, or int() raises ValueError) *)
salary_value(salary) ==
  LET numbers == findall_numbers(salary) IN
  IF numbers = <<>>
    THEN [ok |-> FALSE, value |-> 0]
    ELSE int(remove(numbers[1], ","))

(* the band taken without its two ends *)
salary_flags_inclusive(value, level) ==
  LET threshold == UNREALISTIC_SALARY_THRESHOLDS[level] IN
  IF value >= threshold.max
    THEN <<AddFlagCall("Unrealistic Salary (Too High)", <<level>>, value, "high", 13)>>
  ELSE IF value <= threshold.min
    THEN <<AddFlagCall("Unrealistic Salary (Too Low)", <<level>>, value, "medium", 7)>>
  ELSE NoCalls

(* lines 215-228: the value against the band of the level *)
salary_flags(value, level) ==
  LET threshold == UNREALISTIC_SALARY_THRESHOLDS[level] IN
  IF value > threshold.max
    THEN <<AddFlagCall("Unrealistic Salary (Too High)", <<level>>, value, "high", 13)>>
  ELSE IF value < threshold.min
    THEN <<AddFlagCall("Unrealistic Salary (Too Low)", <<level>>, value, "medium", 7)>>
  ELSE NoCalls

_check_salary_unrealistic(salary, job_title) ==
  IF Falsy(salary) THEN Returns(NoCalls)
  ELSE
    LET parsed == salary_value(salary.str) IN
    IF ~parsed.ok THEN Returns(NoCalls)
    ELSE Returns(salary_flags(parsed.value, job_level(job_title)))

(* the misspellings looked for only when the length check did not fire *)
_check_description_quality_elif(description) ==
  LET misspelling_count == CountIn(common_misspellings, lower(description)) IN
  Returns(
    IF Len(strip(description)) < 100
      THEN <<AddFlagCall("Poor Job Description Quality", <<>>, 0, "medium", 6)>>
    ELSE IF misspelling_count >= 2
      THEN <<AddFlagCall("Poor Grammar/Spelling", <<>>, misspelling_count, "low", 4)>>
    ELSE NoCalls)

_check_description_quality(description) ==
  LET misspelling_count == CountIn(common_misspellings, lower(description)) IN
  Returns(
    (IF Len(strip(description)) < 100
       THEN <<AddFlagCall("Poor Job Description Quality", <<>>, 0, "medium", 6)>>
       ELSE NoCalls)
    \o
    (IF misspelling_count >= 2
       THEN <<AddFlagCall("Poor Grammar/Spelling", <<>>, misspelling_count, "low", 4)>>
       ELSE NoCalls))

_check_company_legitimacy(company_name) ==
  LET company_lower == lower(company_name) IN
  IF AnyIn(legitimacy_words, company_lower) /\ count(company_lower, " ") > 4
    THEN Returns(<<AddFlagCall("Suspicious Company Name Pattern", <<>>, 0, "low", 3)>>)
    ELSE Returns(NoCalls)

(* Both subscripts can raise IndexError; the comparison that follows ends in `pass` *)
_check_email_company_mismatch(email, company_name) ==
  IF ~domain_part(email).ok
    THEN Raises("IndexError", NoCalls)
  ELSE IF Len(split_ws(lower(company_name))) < 1
    THEN Raises("IndexError", NoCalls)
  ELSE Returns(NoCalls)

(***************************************************************************)
(* UTILITY METHODS                                                         *)
(*                                                                         *)
(* self is the pair of the engine's fields, the list taken by its content. *)
(***************************************************************************)
(* a flag dropped once the score has reached the cap *)
_add_flag_until_cap(self, call) ==
  IF self.risk_score >= 100 THEN self
  ELSE [ detected_flags |->
           Append(self.detected_flags,
                  [ type        |-> call.flag_type,
                    description |-> call.description,
                    severity    |-> call.severity ]),
         risk_score |-> self.risk_score + call.score_impact ]

(* the impact assigned to the score instead of added to it *)
_add_flag_assign(self, call) ==
  [ detected_flags |->
      Append(self.detected_flags,
             [ type        |-> call.flag_type,
               description |-> call.description,
               severity    |-> call.severity ]),
    risk_score |-> call.score_impact ]

_add_flag(self, call) ==
  [ detected_flags |->
      Append(self.detected_flags,
             [ type        |-> call.flag_type,
               description |-> call.description,
               severity    |-> call.severity ]),
    risk_score |-> self.risk_score + call.score_impact ]

(* the _add_flag calls of one rule routine, applied in order *)
RECURSIVE AddFlags(_, _)
AddFlags(self, calls) ==
  IF calls = <<>> THEN self
  ELSE AddFlags(_add_flag(self, Head(calls)), Tail(calls))

(* the cap left out *)
UncappedScore(score) == score

(* line 306: the cap *)
CappedScore(score) == IF score < 100 THEN score ELSE 100

(* the lower boundary taken with <= *)
TierBoundaryOff(score) ==
  IF score <= 30 THEN "Legitimate"
  ELSE IF score < 70 THEN "Suspicious"
  ELSE "Fake"

(* lines 308-313 *)
Tier(score) ==
  IF score < 30 THEN "Legitimate"
  ELSE IF score < 70 THEN "Suspicious"
  ELSE "Fake"

(* _classify_risk: the capped score it stores and the tier it returns *)
_classify_risk(score) ==
  [risk_score |-> CappedScore(score), classification |-> Tier(CappedScore(score))]

(***************************************************************************)
(* The postings the callers submit.  An argument of analyze is named by    *)
(* its position in the table of the values tried for it; a description is  *)
(* a base text followed by up to MaxAdded further keywords, each appended  *)
(* after a space.                                                          *)
(***************************************************************************)
MaxAdded == 1

(* at most MaxCalls analyze calls are made on the engine *)
MaxCalls == 3

Emails ==
  (* 1: 'jobs@gmail.com' *)
  << <<"j","o","b","s","@","g","m","a","i","l",".","c","o","m">>,
  (* 2: 'HR@Gmail.COM' *)
     <<"H","R","@","G","m","a","i","l",".","C","O","M">>,
  (* 3: 'hr@acme.com' *)
     <<"h","r","@","a","c","m","e",".","c","o","m">>,
  (* 4: 'hr.acme.com' *)
     <<"h","r",".","a","c","m","e",".","c","o","m">> >>

Websites ==
  (* 1: None *)
  << None,
  (* 2: 'https://acme.com' *)
     Some(<<"h","t","t","p","s",":","/","/","a","c","m","e",".","c","o","m">>) >>

Salaries ==
  (* 1: None *)
  << None,
  (* 2: 'abc' *)
     Some(<<"a","b","c">>),
  (* 3: ',' *)
     Some(<<",">>),
  (* 4: '50000 per day' *)
     Some(<<"5","0","0","0","0"," ","p","e","r"," ","d","a","y">>),
  (* 5: '6,000,000' *)
     Some(<<"6",",","0","0","0",",","0","0","0">>),
  (* 6: '5,000' *)
     Some(<<"5",",","0","0","0">>) >>

Titles ==
  (* 1: 'Software Engineer Intern' *)
  << <<"S","o","f","t","w","a","r","e"," ","E","n","g","i","n","e","e","r"," ","I","n","t","e","r","n">>,
  (* 2: 'Junior Developer' *)
     <<"J","u","n","i","o","r"," ","D","e","v","e","l","o","p","e","r">>,
  (* 3: 'Manager' *)
     <<"M","a","n","a","g","e","r">>,
  (* 4: 'Junior INTERN' *)
     <<"J","u","n","i","o","r"," ","I","N","T","E","R","N">> >>

Companies ==
  (* 1: 'Acme' *)
  << <<"A","c","m","e">>,
  (* 2: 'Acme Global Services Private Limited' *)
     <<"A","c","m","e"," ","G","l","o","b","a","l"," ","S","e","r","v","i","c","e","s"," ","P","r","i","v","a","t","e"," ","L","i","m","i","t","e","d">>,
  (* 3: 'Acme Global Tech Services Private Limited' *)
     <<"A","c","m","e"," ","G","l","o","b","a","l"," ","T","e","c","h"," ","S","e","r","v","i","c","e","s"," ","P","r","i","v","a","t","e"," ","L","i","m","i","t","e","d">>,
  (* 4: ' ' *)
     <<" ">>,
  (* 5: '' *)
     <<>> >>

BaseDescriptions ==
  (* 1: 'We build web tools for schools and shops' *)
  << <<"W","e"," ","b","u","i","l","d"," ","w","e","b"," ","t","o","o","l","s"," ","f","o","r"," ","s","c","h","o","o","l","s"," ","a","n","d"," ","s","h","o","p","s">>,
  (* 2: 'We are hiring a backend developer to build and maintain internal tools for our logistics team in Pune.' *)
     <<"W","e"," ","a","r","e"," ","h","i","r","i","n","g"," ","a"," ","b","a","c","k","e","n","d"," ","d","e","v","e","l","o","p","e","r"," ","t","o"," ","b","u","i","l","d"," ","a","n","d"," ","m","a","i","n","t","a","i","n"," ","i","n","t","e","r","n","a","l"," ","t","o","o","l","s"," ","f","o","r"," ","o","u","r"," ","l","o","g","i","s","t","i","c","s"," ","t","e","a","m"," ","i","n"," ","P","u","n","e",".">>,
  (* 3: 'Join our sales team today. Pay the registration fee to confirm your seat. Selection is GUARANTEED for all.' *)
     <<"J","o","i","n"," ","o","u","r"," ","s","a","l","e","s"," ","t","e","a","m"," ","t","o","d","a","y","."," ","P","a","y"," ","t","h","e"," ","r","e","g","i","s","t","r","a","t","i","o","n"," ","f","e","e"," ","t","o"," ","c","o","n","f","i","r","m"," ","y","o","u","r"," ","s","e","a","t","."," ","S","e","l","e","c","t","i","o","n"," ","i","s"," ","G","U","A","R","A","N","T","E","E","D"," ","f","o","r"," ","a","l","l",".">>,
  (* 4: 'Dear Applicant, URGENT hiring, apply now! Easy money, work from anywhere, job guaranteed. You will recieve the applicaton after payment.' *)
     <<"D","e","a","r"," ","A","p","p","l","i","c","a","n","t",","," ","U","R","G","E","N","T"," ","h","i","r","i","n","g",","," ","a","p","p","l","y"," ","n","o","w","!"," ","E","a","s","y"," ","m","o","n","e","y",","," ","w","o","r","k"," ","f","r","o","m"," ","a","n","y","w","h","e","r","e",","," ","j","o","b"," ","g","u","a","r","a","n","t","e","e","d","."," ","Y","o","u"," ","w","i","l","l"," ","r","e","c","i","e","v","e"," ","t","h","e"," ","a","p","p","l","i","c","a","t","o","n"," ","a","f","t","e","r"," ","p","a","y","m","e","n","t",".">>,
  (* 5: '  Data typist wanted. You recieve tasks by mail and recieve payment weekly. Call us for details.   ' *)
     <<" "," ","D","a","t","a"," ","t","y","p","i","s","t"," ","w","a","n","t","e","d","."," ","Y","o","u"," ","r","e","c","i","e","v","e"," ","t","a","s","k","s"," ","b","y"," ","m","a","i","l"," ","a","n","d"," ","r","e","c","i","e","v","e"," ","p","a","y","m","e","n","t"," ","w","e","e","k","l","y","."," ","C","a","l","l"," ","u","s"," ","f","o","r"," ","d","e","t","a","i","l","s","."," "," "," ">>,
  (* 6: 'A sucessful applicaton is all you need' *)
     <<"A"," ","s","u","c","e","s","s","f","u","l"," ","a","p","p","l","i","c","a","t","o","n"," ","i","s"," ","a","l","l"," ","y","o","u"," ","n","e","e","d">> >>

AddedKeywords ==
  (* 1: 'payment' *)
  << <<"p","a","y","m","e","n","t">>,
  (* 2: 'urgent' *)
     <<"u","r","g","e","n","t">>,
  (* 3: 'asap' *)
     <<"a","s","a","p">> >>

SeqsUpTo(S, n) == UNION {[1..k -> S] : k \in 0..n}

DescriptionInputs ==
  [base : DOMAIN BaseDescriptions, added : SeqsUpTo(DOMAIN AddedKeywords, MaxAdded)]

RECURSIVE AppendKeywords(_, _)
AppendKeywords(text, added) ==
  IF added = <<>> THEN text
  ELSE AppendKeywords(text \o <<" ">> \o AddedKeywords[Head(added)], Tail(added))

DescriptionText(d) == AppendKeywords(BaseDescriptions[d.base], d.added)

Postings ==
  [ company_name : DOMAIN Companies,
    job_title    : DOMAIN Titles,
    description  : DescriptionInputs,
    email        : DOMAIN Emails,
    website      : DOMAIN Websites,
    salary       : DOMAIN Salaries ]

(* the postings two concurrent callers submit *)
ConcurrentPostings ==
  [ company_name : {1},
    job_title    : {3},
    description  : [base : {1, 3}, added : {<<>>}],
    email        : {1, 3},
    website      : {2},
    salary       : {1} ]

(* the postings submitted to an engine that has already served a call *)
LaterPostings ==
  [ company_name : {1, 4},
    job_title    : {3},
    description  : [base : {2, 4}, added : {<<>>}],
    email        : {1, 3, 4},
    website      : {2},
    salary       : {1, 6} ]

NoArgs ==
  [ company_name |-> 0, job_title |-> 0, description |-> [base |-> 0, added |-> <<>>],
    email |-> 0, website |-> 0, salary |-> 0 ]

(***************************************************************************)
(* What each rule routine does on each value tried for its arguments,      *)
(* computed once from the routines above.                                  *)
(***************************************************************************)
(* f, with every value computed *)
Table(f) == f @@ <<>>

OnEmail ==
  Table([e \in DOMAIN Emails |-> _check_email_domain(lower(Emails[e]))])

OnWebsite ==
  Table([w \in DOMAIN Websites, c \in DOMAIN Companies |->
     _check_missing_website(Websites[w], Companies[c])])

OnDescription ==
  Table([d \in DescriptionInputs |->
     LET description       == DescriptionText(d)
         description_lower == lower(description)
     IN  [ suspicious_keywords  |-> _check_suspicious_keywords(description_lower),
           urgency_language     |-> _check_urgency_language(description_lower),
           copy_paste_content   |-> _check_copy_paste_content(description_lower),
           unrealistic_benefits |-> _check_unrealistic_benefits(description_lower),
           description_quality  |-> _check_description_quality(description) ]])

OnSalary ==
  Table([s \in DOMAIN Salaries, j \in DOMAIN Titles |->
     _check_salary_unrealistic(Salaries[s], Titles[j])])

OnCompany ==
  Table([c \in DOMAIN Companies |-> _check_company_legitimacy(Companies[c])])

OnEmailCompany ==
  Table([e \in DOMAIN Emails, c \in DOMAIN Companies |->
     _check_email_company_mismatch(Emails[e], Companies[c])])

(* the keyword scan and the urgency scan called the other way round *)
RuleOrderUrgencyFirst ==
  << "email_domain", "missing_website", "urgency_language", "suspicious_keywords",
     "copy_paste_content", "unrealistic_benefits", "salary_unrealistic",
     "description_quality", "company_legitimacy", "email_company_mismatch" >>

(* lines 77-86: the rule routines in the order analyze calls them *)
RuleOrder ==
  << "email_domain", "missing_website", "suspicious_keywords", "urgency_language",
     "copy_paste_content", "unrealistic_benefits", "salary_unrealistic",
     "description_quality", "company_legitimacy", "email_company_mismatch" >>

(* the outcome of the rule routine `rule` on the arguments a of analyze *)
RuleOutcome(rule, a) ==
  CASE rule = "email_domain"           -> OnEmail[a.email]
    [] rule = "missing_website"        -> OnWebsite[a.website, a.company_name]
    [] rule = "suspicious_keywords"    -> OnDescription[a.description].suspicious_keywords
    [] rule = "urgency_language"       -> OnDescription[a.description].urgency_language
    [] rule = "copy_paste_content"     -> OnDescription[a.description].copy_paste_content
    [] rule = "unrealistic_benefits"   -> OnDescription[a.description].unrealistic_benefits
    [] rule = "salary_unrealistic"     -> OnSalary[a.salary, a.job_title]
    [] rule = "description_quality"    -> OnDescription[a.description].description_quality
    [] rule = "company_legitimacy"     -> OnCompany[a.company_name]
    [] rule = "email_company_mismatch" -> OnEmailCompany[a.email, a.company_name]

(* lines 77-86 run to the end or to the first exception, from the rule at position i *)
RECURSIVE RunRules(_, _, _)
RunRules(self, a, i) ==
  IF i > Len(RuleOrder) THEN [error |-> "", self |-> self]
  ELSE LET outcome == RuleOutcome(RuleOrder[i], a)
           after   == AddFlags(self, outcome.calls)
       IN  IF outcome.error # ""
             THEN [error |-> outcome.error, self |-> after]
             ELSE RunRules(after, a, i + 1)

(* lines 77-86 with the calls of the rule routines taken in the order `order`,
   from position i *)
RECURSIVE RunRulesIn(_, _, _, _)
RunRulesIn(order, self, a, i) ==
  IF i > Len(order) THEN [error |-> "", self |-> self]
  ELSE LET outcome == RuleOutcome(order[i], a)
           after   == AddFlags(self, outcome.calls)
       IN  IF outcome.error # ""
             THEN [error |-> outcome.error, self |-> after]
             ELSE RunRulesIn(order, after, a, i + 1)

(* analyze (lines 52-91) run alone with its rule calls in the order `order` *)
analyze_in(order, a) ==
  LET run == RunRulesIn(order, [detected_flags |-> <<>>, risk_score |-> 0], a, 1) IN
  IF run.error # ""
    THEN [kind |-> run.error, risk_score |-> 0, classification |-> "", flags |-> <<>>]
    ELSE LET c == _classify_risk(run.self.risk_score) IN
         [ kind           |-> "returned",
           risk_score     |-> c.risk_score,
           classification |-> c.classification,
           flags          |-> run.self.detected_flags ]

(* analyze (lines 52-91) run alone, start to end, on an engine of its own: what
   the caller gets, the returned list taken by its content *)
analyze(a) ==
  LET run == RunRules([detected_flags |-> <<>>, risk_score |-> 0], a, 1) IN
  IF run.error # ""
    THEN [kind |-> run.error, risk_score |-> 0, classification |-> "", flags |-> <<>>]
    ELSE LET c == _classify_risk(run.self.risk_score) IN
         [ kind           |-> "returned",
           risk_score     |-> c.risk_score,
           classification |-> c.classification,
           flags          |-> run.self.detected_flags ]

(***************************************************************************)
(* The engine as a state machine                                           *)
(***************************************************************************)
Callers == {1, 2}

NoResult == [kind |-> "none", risk_score |-> 0, classification |-> "", detected_flags |-> 0]

Raised(error) ==
  [kind |-> error, risk_score |-> 0, classification |-> "", detected_flags |-> 0]

Returned(score, tier, list) ==
  [kind |-> "returned", risk_score |-> score, classification |-> tier, detected_flags |-> list]

(* the lists some caller's result still refers to *)
HeldLists(res) == {res[t].detected_flags : t \in {u \in Callers : res[u].kind = "returned"}}

(* a list id not in use *)
NewList(used) == CHOOSE i \in 1..(Cardinality(used) + 1) : i \notin used

(* no request received yet *)
NoRequest ==
  [ company_name |-> None, job_title |-> None, description |-> None,
    email |-> None, website |-> None, salary |-> None ]

(* no response sent yet *)
NoResponse ==
  [ status |-> 0, error |-> "", risk_score |-> 0, classification |-> "",
    detected_flags |-> <<>> ]

(* a session with no row added *)
NoRows == [jobs |-> <<>>, flags |-> <<>>]

(* lines 48-50: __init__, run once for the shared ai_engine (line 320); the
   application starts on a database whose tables are empty *)
Init ==
  /\ heap = [i \in {1} |-> <<>>]
  /\ detected_flags = 1
  /\ risk_score = 0
  /\ pc = [t \in Callers |-> "idle"]
  /\ args = [t \in Callers |-> NoArgs]
  /\ classification = [t \in Callers |-> ""]
  /\ result = [t \in Callers |-> NoResult]
  /\ call_count = 0
  /\ handler_pc = "idle"
  /\ request = NoRequest
  /\ session = NoRows
  /\ store = [jobs |-> {}, flags |-> {}]
  /\ response = NoResponse

(* the engine's fields, with the lists they can reach *)
Engine == [heap |-> heap, detected_flags |-> detected_flags, risk_score |-> risk_score]

(* the reset left out: the engine keeps the list and the score of the call before *)
KeepState(self, held) ==
  [ heap           |-> [i \in held \cup {self.detected_flags} |-> self.heap[i]],
    detected_flags |-> self.detected_flags,
    risk_score     |-> self.risk_score ]

(* the list emptied in place instead of replaced: detected_flags.clear() *)
ClearState(self, held) ==
  [ heap           |-> [i \in held \cup {self.detected_flags} |->
                          IF i = self.detected_flags THEN <<>> ELSE self.heap[i]],
    detected_flags |-> self.detected_flags,
    risk_score     |-> 0 ]

(* lines 68-70, "Reset state": detected_flags is bound to a new empty list and
   risk_score to 0.  A list that neither the engine nor a result in `held`
   refers to any longer is gone. *)
ResetState(self, held) ==
  LET fresh == NewList(held) IN
  [ heap           |-> [i \in held \cup {fresh} |-> IF i = fresh THEN <<>> ELSE self.heap[i]],
    detected_flags |-> fresh,
    risk_score     |-> 0 ]

(* analyze, up to line 74, entered through analyze_job_offer: caller t, with no call in
   progress, lets go of its previous result and enters analyze with a posting of P *)
Enter(t, P) ==
  /\ pc[t] = "idle"
  /\ call_count < MaxCalls
  /\ call_count' = call_count + 1
  /\ \E a \in P :
       LET res   == [result EXCEPT ![t] = NoResult]
           reset == ResetState(Engine, HeldLists(res))
       IN  /\ args' = [args EXCEPT ![t] = a]
           /\ result' = res
           /\ heap' = reset.heap
           /\ detected_flags' = reset.detected_flags
           /\ risk_score' = reset.risk_score
  /\ pc' = [pc EXCEPT ![t] = RuleOrder[1]]
  /\ UNCHANGED classification

(* a call of analyze_job_offer made from outside the handler *)
Call(t, P) == Enter(t, P) /\ UNCHANGED handler_vars

(* the statement after the call of the rule routine `rule` *)
After(rule) ==
  IF rule = RuleOrder[Len(RuleOrder)] THEN "classify"
  ELSE RuleOrder[(CHOOSE i \in 1..Len(RuleOrder) : RuleOrder[i] = rule) + 1]

(* one of lines 77-86: caller t runs the rule routine `rule` on the shared engine;
   an exception of the routine leaves analyze and reaches the caller *)
RunRule(t, rule) ==
  /\ LET outcome == RuleOutcome(rule, args[t])
         self    == AddFlags([detected_flags |-> heap[detected_flags],
                              risk_score     |-> risk_score], outcome.calls)
     IN  /\ heap' = [heap EXCEPT ![detected_flags] = self.detected_flags]
         /\ risk_score' = self.risk_score
         /\ IF outcome.error = ""
              THEN /\ pc' = [pc EXCEPT ![t] = After(rule)]
                   /\ result' = result
              ELSE /\ pc' = [pc EXCEPT ![t] = "idle"]
                   /\ result' = [result EXCEPT ![t] = Raised(outcome.error)]
  /\ UNCHANGED <<detected_flags, args, classification, call_count, handler_vars>>

CheckEmailDomain(t)          == pc[t] = "email_domain" /\ RunRule(t, "email_domain")
CheckMissingWebsite(t)       == pc[t] = "missing_website" /\ RunRule(t, "missing_website")
CheckSuspiciousKeywords(t)   == pc[t] = "suspicious_keywords" /\ RunRule(t, "suspicious_keywords")
CheckUrgencyLanguage(t)      == pc[t] = "urgency_language" /\ RunRule(t, "urgency_language")
CheckCopyPasteContent(t)     == pc[t] = "copy_paste_content" /\ RunRule(t, "copy_paste_content")
CheckUnrealisticBenefits(t)  == pc[t] = "unrealistic_benefits" /\ RunRule(t, "unrealistic_benefits")
CheckSalaryUnrealistic(t)    == pc[t] = "salary_unrealistic" /\ RunRule(t, "salary_unrealistic")
CheckDescriptionQuality(t)   == pc[t] = "description_quality" /\ RunRule(t, "description_quality")
CheckCompanyLegitimacy(t)    == pc[t] = "company_legitimacy" /\ RunRule(t, "company_legitimacy")
CheckEmailCompanyMismatch(t) == pc[t] = "email_company_mismatch" /\ RunRule(t, "email_company_mismatch")

(* line 89: classification = self._classify_risk() *)
ClassifyRisk(t) ==
  /\ pc[t] = "classify"
  /\ LET c == _classify_risk(risk_score) IN
       /\ risk_score' = c.risk_score
       /\ classification' = [classification EXCEPT ![t] = c.classification]
  /\ pc' = [pc EXCEPT ![t] = "return"]
  /\ UNCHANGED <<heap, detected_flags, args, result, call_count, handler_vars>>

(* what line 91 hands back: the engine's score and its list itself, not a copy *)
ReturnValue(self, tier) == Returned(self.risk_score, tier, self.detected_flags)

(* line 91: return self.risk_score, classification, self.detected_flags *)
Return(t) ==
  /\ pc[t] = "return"
  /\ result' = [result EXCEPT ![t] = ReturnValue(Engine, classification[t])]
  /\ pc' = [pc EXCEPT ![t] = "idle"]
  /\ UNCHANGED <<heap, detected_flags, risk_score, args, classification, call_count,
                 handler_vars>>

Step(t) ==
  \/ CheckEmailDomain(t)
  \/ CheckMissingWebsite(t)
  \/ CheckSuspiciousKeywords(t)
  \/ CheckUrgencyLanguage(t)
  \/ CheckCopyPasteContent(t)
  \/ CheckUnrealisticBenefits(t)
  \/ CheckSalaryUnrealistic(t)
  \/ CheckDescriptionQuality(t)
  \/ CheckCompanyLegitimacy(t)
  \/ CheckEmailCompanyMismatch(t)
  \/ ClassifyRisk(t)
  \/ Return(t)

(* one caller at a time: every analyze call runs to its end before the next.  The
   first call on the engine takes any posting; the calls after it, which start from
   whatever that call left in the engine, take a posting of LaterPostings *)
Next ==
  \/ (call_count = 0 /\ Call(1, Postings))
  \/ (call_count > 0 /\ Call(1, LaterPostings))
  \/ Step(1)

Spec == Init /\ [][Next]_vars

(* two callers share ai_engine and their analyze calls interleave *)
NextConcurrent == \E t \in Callers : Call(t, ConcurrentPostings) \/ Step(t)

SpecConcurrent == Init /\ [][NextConcurrent]_vars

(* two callers share ai_engine and call it in turn: a call starts when no call is
   in progress, and each caller keeps the result of its last call meanwhile *)
NextInTurn ==
  \E t \in Callers :
    \/ ((\A u \in Callers : pc[u] = "idle") /\ Call(t, ConcurrentPostings))
    \/ Step(t)

SpecInTurn == Init /\ [][NextInTurn]_vars

(***************************************************************************)
(* What a caller holds                                                     *)
(***************************************************************************)
(* caller t's analyze call has ended, with a result or with an exception *)
Ended(t) == pc[t] = "idle" /\ result[t].kind # "none"

(* caller t's analyze call has returned a result *)
Done(t) == pc[t] = "idle" /\ result[t].kind = "returned"

(* the flags of the list caller t was handed, as they are now *)
Flags(t) == IF result[t].kind = "returned" THEN heap[result[t].detected_flags] ELSE <<>>

FlagTypes(t) == [i \in 1..Len(Flags(t)) |-> Flags(t)[i].type]

(* what caller t holds, the list taken by its content *)
Outcome(t) ==
  [ kind           |-> result[t].kind,
    risk_score     |-> result[t].risk_score,
    classification |-> result[t].classification,
    flags          |-> Flags(t) ]

Has(t, flag_type) == \E i \in 1..Len(Flags(t)) : Flags(t)[i].type = flag_type

(* the impact the catalog attaches to each flag type *)
ImpactOf(flag_type) ==
  CASE flag_type = "Free Email Domain"                -> 15
    [] flag_type = "Missing Company Website"          -> 12
    [] flag_type = "Payment Request"                  -> 25
    [] flag_type = "Unrealistic Guarantees"           -> 18
    [] flag_type = "Unrealistic Work-from-Home Offer" -> 16
    [] flag_type = "Excessive Urgency"                -> 10
    [] flag_type = "Generic/Copy-Paste Content"       -> 8
    [] flag_type = "Unrealistic Benefits"             -> 14
    [] flag_type = "Unrealistic Salary (Too High)"    -> 13
    [] flag_type = "Unrealistic Salary (Too Low)"     -> 7
    [] flag_type = "Poor Job Description Quality"     -> 6
    [] flag_type = "Poor Grammar/Spelling"            -> 4
    [] flag_type = "Suspicious Company Name Pattern"  -> 3

RECURSIVE SumOfImpacts(_)
SumOfImpacts(flags) ==
  IF flags = <<>> THEN 0
  ELSE ImpactOf(Head(flags).type) + SumOfImpacts(Tail(flags))

(***************************************************************************)
(* The /api/analyze handler (src/app.py, analyze_job)                      *)
(*                                                                         *)
(* A request is the JSON object received: each field is absent (None) or a *)
(* string.  The handler is caller 1 of the engine.  A row of the table     *)
(* jobs keeps the posting analysed; id 0 marks a row not yet flushed.  The *)
(* log lines, the timestamp, the explanation text and the job_id of the    *)
(* response are left out.                                                  *)
(***************************************************************************)
RawCompanies ==
  (* 1: absent *)
  << None,
  (* 2: '' *)
     Some(<<>>),
  (* 3: ' ' *)
     Some(<<" ">>),
  (* 4: ' Acme ' *)
     Some(<<" ","A","c","m","e"," ">>) >>

RawTitles ==
  (* 1: 'Manager' *)
  << Some(<<"M","a","n","a","g","e","r">>) >>

RawDescriptions ==
  (* 1: ' We build web tools for schools and shops ' *)
  << Some(<<" ","W","e"," ","b","u","i","l","d"," ","w","e","b"," ","t","o","o","l","s"," ","f","o","r"," ","s","c","h","o","o","l","s"," ","a","n","d"," ","s","h","o","p","s"," ">>) >>

RawEmails ==
  (* 1: ' JOBS@Gmail.com ' *)
  << Some(<<" ","J","O","B","S","@","G","m","a","i","l",".","c","o","m"," ">>),
  (* 2: 'hr.acme.com' *)
     Some(<<"h","r",".","a","c","m","e",".","c","o","m">>),
  (* 3: 'hr@acme' *)
     Some(<<"h","r","@","a","c","m","e">>) >>

RawWebsites ==
  (* 1: absent *)
  << None >>

RawSalaries ==
  (* 1: absent *)
  << None,
  (* 2: ' 5,000 ' *)
     Some(<<" ","5",",","0","0","0"," ">>) >>

ValuesOf(table) == {table[i] : i \in DOMAIN table}

(* the requests tried *)
Requests ==
  [ company_name : ValuesOf(RawCompanies),
    job_title    : ValuesOf(RawTitles),
    description  : ValuesOf(RawDescriptions),
    email        : ValuesOf(RawEmails),
    website      : ValuesOf(RawWebsites),
    salary       : ValuesOf(RawSalaries) ]

(* line 149 *)
required_fields == <<"company_name", "job_title", "description", "email">>

(* lines 150-151: field not in data or not data[field], for some required field *)
MissingRequiredField(data) ==
  \E i \in 1..Len(required_fields) : Falsy(data[required_fields[i]])

(* lines 159-164: "Extract and sanitize input" *)
sanitize(data) ==
  [ company_name |-> strip(data.company_name.str),
    job_title    |-> strip(data.job_title.str),
    description  |-> strip(data.description.str),
    email        |-> lower(strip(data.email.str)),
    website      |-> IF Falsy(data.website) THEN None ELSE Some(strip(data.website.str)),
    salary       |-> IF Falsy(data.salary) THEN None ELSE Some(strip(data.salary.str)) ]

(* line 167, negated: '@' in email and '.' in email.split('@')[-1] *)
ValidEmail(email) ==
  LET parts == split(email, "@") IN
    /\ Contains(email, <<"@">>)
    /\ Contains(parts[Len(parts)], <<".">>)

(* the place of a value in the table of the values tried for an argument *)
IndexOf(table, value) == CHOOSE i \in DOMAIN table : table[i] = value

(* lines 175-182: the arguments the handler passes to analyze_job_offer *)
PostingOf(fields) ==
  [ company_name |-> IndexOf(Companies, fields.company_name),
    job_title    |-> IndexOf(Titles, fields.job_title),
    description  |-> [base |-> IndexOf(BaseDescriptions, fields.description), added |-> <<>>],
    email        |-> IndexOf(Emails, fields.email),
    website      |-> IndexOf(Websites, fields.website),
    salary       |-> IndexOf(Salaries, fields.salary) ]

(* lines 140-144, 152-156, 168-172, 237-241: an error response *)
ErrorResponse(status, error) ==
  [ status |-> status, error |-> error, risk_score |-> 0, classification |-> "",
    detected_flags |-> <<>> ]

(* db.session and the database behind it, as one value *)
Database == [store |-> store, session |-> session]

(* lines 186-196: the Job row built from the posting and the result, added to
   the session *)
add_job(db, posting, score, tier) ==
  [db EXCEPT !.session.jobs =
     Append(@, [ id |-> 0, posting |-> posting,
                 risk_score |-> score, classification |-> tier ])]

(* lines 201-207: the RedFlag row of one flag, added to the session *)
add_red_flag(db, job_id, flag) ==
  [db EXCEPT !.session.flags =
     Append(@, [ id |-> 0, job_id |-> job_id, flag_type |-> flag.type,
                 description |-> flag.description, severity |-> flag.severity ])]

(* lines 200-207: one RedFlag row for every flag of the list, in order *)
RECURSIVE add_red_flags(_, _, _)
add_red_flags(db, job_id, flags) ==
  IF flags = <<>> THEN db
  ELSE add_red_flags(add_red_flag(db, job_id, Head(flags)), job_id, Tail(flags))

(* the rows of a session table after a flush: a row not yet inserted gets the
   next id of its table; the inserts stay inside the open transaction *)
Inserted(rows, committed) ==
  [i \in 1..Len(rows) |->
     IF rows[i].id = 0 THEN [rows[i] EXCEPT !.id = Cardinality(committed) + i]
     ELSE rows[i]]

(* line 197: db.session.flush() *)
flush(db) ==
  [db EXCEPT !.session.jobs  = Inserted(@, db.store.jobs),
             !.session.flags = Inserted(@, db.store.flags)]

(* line 209: db.session.commit(): the session is flushed and its transaction
   committed *)
commit(db) ==
  LET rows == flush(db).session IN
  [ store   |-> [ jobs  |-> db.store.jobs \cup ValuesOf(rows.jobs),
                  flags |-> db.store.flags \cup ValuesOf(rows.flags) ],
    session |-> NoRows ]

(* a database without transactions: the rows already inserted stay *)
rollback_keeps_inserted(db) ==
  [ store   |-> [ jobs  |-> db.store.jobs \cup
                              {r \in ValuesOf(db.session.jobs) : r.id # 0},
                  flags |-> db.store.flags \cup
                              {r \in ValuesOf(db.session.flags) : r.id # 0} ],
    session |-> NoRows ]

(* line 213: db.session.rollback(): the open transaction is undone *)
rollback(db) == [store |-> db.store, session |-> NoRows]

(* lines 146-156: a request without one of the required fields is answered 400 *)
RejectMissingField ==
  /\ handler_pc = "idle"
  /\ \E data \in Requests :
       /\ MissingRequiredField(data)
       /\ request' = data
  /\ response' = ErrorResponse(400, "Missing Required Field")
  /\ UNCHANGED <<heap, detected_flags, risk_score, pc, args, classification, result,
                 call_count, handler_pc, session, store>>

(* lines 146-172: a request whose sanitized email is not valid is answered 400 *)
RejectInvalidEmail ==
  /\ handler_pc = "idle"
  /\ \E data \in Requests :
       /\ ~MissingRequiredField(data)
       /\ ~ValidEmail(sanitize(data).email)
       /\ request' = data
  /\ response' = ErrorResponse(400, "Invalid Email")
  /\ UNCHANGED <<heap, detected_flags, risk_score, pc, args, classification, result,
                 call_count, handler_pc, session, store>>

(* lines 146-182: a request that passes both validations; the handler calls
   analyze_job_offer with the sanitized fields *)
RunAnalysis ==
  /\ handler_pc = "idle"
  /\ \E data \in Requests :
       /\ ~MissingRequiredField(data)
       /\ ValidEmail(sanitize(data).email)
       /\ request' = data
       /\ Enter(1, {PostingOf(sanitize(data))})
  /\ handler_pc' = "analysing"
  /\ response' = NoResponse
  /\ UNCHANGED <<session, store>>

(* lines 235-241: an exception of the engine reaches the outer handler: 500 *)
AnalysisFailed ==
  /\ handler_pc = "analysing"
  /\ Ended(1) /\ ~Done(1)
  /\ response' = ErrorResponse(500, "Analysis Failed")
  /\ handler_pc' = "idle"
  /\ UNCHANGED <<heap, detected_flags, risk_score, pc, args, classification, result,
                 call_count, request, session, store>>

(* lines 186-197: the Job row is added and flushed *)
SaveJob ==
  /\ handler_pc = "analysing"
  /\ Done(1)
  /\ LET db == flush(add_job(Database, args[1], result[1].risk_score,
                             result[1].classification))
     IN  session' = db.session /\ store' = db.store
  /\ handler_pc' = "flushed"
  /\ UNCHANGED <<heap, detected_flags, risk_score, pc, args, classification, result,
                 call_count, request, response>>

(* lines 186-197 and 212-215: the database refuses the insert; the exception is
   caught and the transaction rolled back *)
SaveJobFails ==
  /\ handler_pc = "analysing"
  /\ Done(1)
  /\ LET db == rollback(add_job(Database, args[1], result[1].risk_score,
                                result[1].classification))
     IN  session' = db.session /\ store' = db.store
  /\ handler_pc' = "respond"
  /\ UNCHANGED <<heap, detected_flags, risk_score, pc, args, classification, result,
                 call_count, request, response>>

(* job_record.id, once flushed *)
job_record_id == session.jobs[Len(session.jobs)].id

(* lines 199-209: a RedFlag row for every flag returned, then the commit *)
SaveFlags ==
  /\ handler_pc = "flushed"
  /\ LET db == commit(add_red_flags(Database, job_record_id, Flags(1)))
     IN  session' = db.session /\ store' = db.store
  /\ handler_pc' = "respond"
  /\ UNCHANGED <<heap, detected_flags, risk_score, pc, args, classification, result,
                 call_count, request, response>>

(* lines 199-215: the database refuses an insert of the commit's flush, or the
   commit; the exception is caught and the transaction rolled back *)
SaveFlagsFails ==
  /\ handler_pc = "flushed"
  /\ \E inserted \in 0..Len(Flags(1)) :
       LET added == add_red_flags(Database, job_record_id, Flags(1))
           sent  == [added EXCEPT !.session.flags =
                       SubSeq(flush(added).session.flags, 1, inserted)
                         \o SubSeq(@, inserted + 1, Len(@))]
           db    == rollback(sent)
       IN  session' = db.session /\ store' = db.store
  /\ handler_pc' = "respond"
  /\ UNCHANGED <<heap, detected_flags, risk_score, pc, args, classification, result,
                 call_count, request, response>>

(* lines 217-233: the response is built from the result and sent *)
Respond ==
  /\ handler_pc = "respond"
  /\ response' = [ status         |-> 200,
                   error          |-> "",
                   risk_score     |-> result[1].risk_score,
                   classification |-> result[1].classification,
                   detected_flags |-> Flags(1) ]
  /\ handler_pc' = "idle"
  /\ UNCHANGED <<heap, detected_flags, risk_score, pc, args, classification, result,
                 call_count, request, session, store>>

(* the handler serves one request at a time *)
NextHandler ==
  \/ RejectMissingField
  \/ RejectInvalidEmail
  \/ RunAnalysis
  \/ Step(1)
  \/ AnalysisFailed
  \/ SaveJob
  \/ SaveJobFails
  \/ SaveFlags
  \/ SaveFlagsFails
  \/ Respond

SpecHandler == Init /\ [][NextHandler]_vars

(***************************************************************************)
(* Properties                                                              *)
(***************************************************************************)

(* C1: whenever analyze returns, the returned risk_score is an integer between 0
   and 100, also when the impacts of the fired flags add up to more than 100. *)
C1_ScoreInRange ==
  \A t \in Callers : Done(t) => result[t].risk_score \in 0..100

(* a call has returned whose flags' impacts add up to more than 100 *)
C1_Witness ==
  Done(1) /\ SumOfImpacts(Flags(1)) > 100 /\ result[1].risk_score = 100

(* C2: in every returned result the classification is Legitimate exactly when the
   score is below 30, Suspicious exactly when it is from 30 to 69, and Fake exactly
   when it is 70 or more. *)
C2_TierMatchesScore ==
  \A t \in Callers :
    Done(t) =>
      LET score == result[t].risk_score
          tier  == result[t].classification
      IN  /\ tier \in {"Legitimate", "Suspicious", "Fake"}
          /\ (tier = "Legitimate") <=> (score < 30)
          /\ (tier = "Suspicious") <=> (30 <= score /\ score < 70)
          /\ (tier = "Fake") <=> (score >= 70)

(* a call has returned the boundary score 70, classified Fake *)
C2_Witness ==
  Done(1) /\ result[1].risk_score = 70 /\ result[1].classification = "Fake"

(* C3: when analyze calls on the shared engine interleave, every call returns what
   it would return run alone: the same score, classification and flags. *)
C3_CallsIsolated ==
  \A t \in Callers : Done(t) => Outcome(t) = analyze(args[t])

(* C4: after any earlier calls on the same engine, failed ones included, a call
   ends exactly as it would on a fresh engine: same score, classification and
   flags, or the same exception. *)
C4_NoHiddenState ==
  \A t \in Callers : Ended(t) => Outcome(t) = analyze(args[t])

(* the engine has served an earlier call, and a later call has returned flags *)
C4_Witness ==
  call_count > 1 /\ Done(1) /\ Flags(1) # <<>>

(* the same posting with the last added keyword left off the description *)
WithoutLastKeyword(a) ==
  [a EXCEPT !.description.added = SubSeq(@, 1, Len(@) - 1)]

(* len(description.strip()) of every description tried *)
TrimmedLength == Table([d \in DescriptionInputs |-> Len(strip(DescriptionText(d)))])

(* C5, as claimed: appending a further matching suspicious keyword to the
   description, the other fields unchanged, never lowers the returned risk_score. *)
C5_Monotone ==
  \A t \in Callers :
    (Done(t) /\ args[t].description.added # <<>>) =>
      result[t].risk_score >= analyze(WithoutLastKeyword(args[t])).risk_score

(* C5, amended: appending a further matching suspicious keyword never lowers the
   returned risk_score, except that it lowers it by at most 6 when the keyword
   lifts the trimmed length of the description from below 100 to 100 or more. *)
C5_MonotoneUpToLength ==
  \A t \in Callers :
    (Done(t) /\ args[t].description.added # <<>>) =>
      LET before == analyze(WithoutLastKeyword(args[t])).risk_score
          short  == TrimmedLength[WithoutLastKeyword(args[t]).description]
          long   == TrimmedLength[args[t].description]
      IN  \/ result[t].risk_score >= before
          \/ /\ short < 100 /\ long >= 100
             /\ result[t].risk_score >= before - 6

(* a call has returned whose last added keyword raised the score *)
C5_Witness ==
  /\ Done(1) /\ args[1].description.added # <<>>
  /\ result[1].risk_score > analyze(WithoutLastKeyword(args[1])).risk_score

RuleNames == {RuleOrder[i] : i \in 1..Len(RuleOrder)}

(* the flags the engine's list holds now *)
Listed == heap[detected_flags]

(* the flags a step has appended to the engine's list *)
Appended == SubSeq(heap'[detected_flags'], Len(Listed) + 1, Len(heap'[detected_flags']))

(* C6, as claimed: every rule routine that analyze calls appends exactly one flag
   or nothing. *)
C6_OneFlagPerRule ==
  [][\A t \in Callers :
       (pc[t] \in RuleNames /\ pc'[t] # pc[t]) => Len(Appended) <= 1]_vars

(* the flag types each rule routine can append *)
TypesOf(rule) ==
  CASE rule = "email_domain"           -> {"Free Email Domain"}
    [] rule = "missing_website"        -> {"Missing Company Website"}
    [] rule = "suspicious_keywords"    -> {"Payment Request", "Unrealistic Guarantees",
                                           "Unrealistic Work-from-Home Offer"}
    [] rule = "urgency_language"       -> {"Excessive Urgency"}
    [] rule = "copy_paste_content"     -> {"Generic/Copy-Paste Content"}
    [] rule = "unrealistic_benefits"   -> {"Unrealistic Benefits"}
    [] rule = "salary_unrealistic"     -> {"Unrealistic Salary (Too High)",
                                           "Unrealistic Salary (Too Low)"}
    [] rule = "description_quality"    -> {"Poor Job Description Quality",
                                           "Poor Grammar/Spelling"}
    [] rule = "company_legitimacy"     -> {"Suspicious Company Name Pattern"}
    [] rule = "email_company_mismatch" -> {}

(* C6, amended: every rule routine appends at most one flag of each of its flag
   types and nothing else: the keyword scan up to three flags, the
   description-quality check up to two, the salary check and every other routine
   at most one, the mismatch check none. *)
C6_OneFlagPerType ==
  [][\A t \in Callers :
       (pc[t] \in RuleNames /\ pc'[t] # pc[t]) =>
         /\ SubSeq(heap'[detected_flags'], 1, Len(Listed)) = Listed
         /\ \A i \in 1..Len(Appended) : Appended[i].type \in TypesOf(pc[t])
         /\ \A i, j \in 1..Len(Appended) : Appended[i].type = Appended[j].type => i = j
         /\ (pc[t] = "salary_unrealistic" => Len(Appended) <= 1)]_vars

(* the keyword scan has just appended its three flags *)
C6_Witness ==
  /\ pc[1] = "urgency_language"
  /\ \A ty \in TypesOf("suspicious_keywords") : \E i \in 1..Len(Listed) : Listed[i].type = ty

NoAt(email) == \A i \in 1..Len(email) : email[i] # "@"

(* C7: a call whose email holds no '@' ends with an error and hands back no
   result; and every call hands back either a complete result or an error, and
   nothing before it has ended. *)
C7_ResultOrError ==
  \A t \in Callers :
    /\ pc[t] # "idle" => result[t] = NoResult
    /\ Ended(t) =>
         \/ /\ result[t].kind = "returned"
            /\ result[t].risk_score \in Int
            /\ result[t].classification \in {"Legitimate", "Suspicious", "Fake"}
            /\ result[t].detected_flags \in DOMAIN heap
         \/ result[t] = Raised("IndexError")
    /\ (Ended(t) /\ NoAt(Emails[args[t].email])) => result[t] = Raised("IndexError")

(* a call with an email without '@' has ended *)
C7_Witness ==
  Ended(1) /\ NoAt(Emails[args[1].email]) /\ result[1] = Raised("IndexError")

(* the first run of digits and commas of the text, if there is one, holds no digit *)
NoIntegerIn(salary) ==
  \/ \A i \in 1..Len(salary) : ~InNumberClass(salary[i])
  \/ LET first == CHOOSE i \in 1..Len(salary) :
                    InNumberClass(salary[i]) /\ \A j \in 1..(i - 1) : ~InNumberClass(salary[j])
     IN  \A i \in first..Len(salary) :
           (\A j \in first..i : InNumberClass(salary[j])) => salary[i] = ","

(* the same posting with no salary *)
WithoutSalary(a) ==
  [a EXCEPT !.salary = CHOOSE s \in DOMAIN Salaries : Salaries[s].is_none]

(* C8: for a salary text from which no integer can be parsed, the call carries no
   salary flag and ends exactly as the call for the same posting without salary. *)
C8_UnparsableSalarySkipped ==
  \A t \in Callers :
    (Ended(t) /\ ~Salaries[args[t].salary].is_none
              /\ NoIntegerIn(Salaries[args[t].salary].str)) =>
      /\ Outcome(t) = analyze(WithoutSalary(args[t]))
      /\ ~Has(t, "Unrealistic Salary (Too High)")
      /\ ~Has(t, "Unrealistic Salary (Too Low)")

(* a call with a lone comma for salary has returned *)
C8_Witness ==
  Done(1) /\ Salaries[args[1].salary] = Some(<<",">>)

(* the salary of the posting parses to a value inside the band of its title *)
InBand(a) ==
  /\ ~Falsy(Salaries[a.salary])
  /\ LET parsed == salary_value(Salaries[a.salary].str)
         band   == UNREALISTIC_SALARY_THRESHOLDS[job_level(Titles[a.job_title])]
     IN  parsed.ok /\ band.min <= parsed.value /\ parsed.value <= band.max

(* C9: a result never carries both salary flags, and carries neither when the
   parsed salary lies in the band of the title, the two ends included. *)
C9_SalaryFlagsExclusive ==
  \A t \in Callers :
    Done(t) =>
      /\ ~(Has(t, "Unrealistic Salary (Too High)") /\ Has(t, "Unrealistic Salary (Too Low)"))
      /\ InBand(args[t]) =>
           /\ ~Has(t, "Unrealistic Salary (Too High)")
           /\ ~Has(t, "Unrealistic Salary (Too Low)")

(* a call has returned for a salary equal to the lower end of the band *)
C9_Witness ==
  /\ Done(1) /\ InBand(args[1])
  /\ salary_value(Salaries[args[1].salary].str).value
       = UNREALISTIC_SALARY_THRESHOLDS[job_level(Titles[args[1].job_title])].min

(* C10: the returned risk_score is the sum of the fixed impacts of exactly the
   returned flags, capped at 100; with no flag it is 0 and the posting Legitimate. *)
C10_ScoreIsCappedSum ==
  \A t \in Callers :
    Done(t) =>
      /\ result[t].risk_score =
           (IF SumOfImpacts(Flags(t)) < 100 THEN SumOfImpacts(Flags(t)) ELSE 100)
      /\ Flags(t) = <<>> =>
           (result[t].risk_score = 0 /\ result[t].classification = "Legitimate")

(* a free address and no website, nothing else: score 27, Legitimate *)
C10_Witness ==
  /\ Done(1)
  /\ FlagTypes(1) = <<"Free Email Domain", "Missing Company Website">>
  /\ result[1].risk_score = 27
  /\ result[1].classification = "Legitimate"

(* the place of each flag type in the order of the rule catalog; the two salary
   flags share one place *)
CatalogPlace(flag_type) ==
  CASE flag_type = "Free Email Domain"                -> 1
    [] flag_type = "Missing Company Website"          -> 2
    [] flag_type = "Payment Request"                  -> 3
    [] flag_type = "Unrealistic Guarantees"           -> 4
    [] flag_type = "Unrealistic Work-from-Home Offer" -> 5
    [] flag_type = "Excessive Urgency"                -> 6
    [] flag_type = "Generic/Copy-Paste Content"       -> 7
    [] flag_type = "Unrealistic Benefits"             -> 8
    [] flag_type = "Unrealistic Salary (Too High)"    -> 9
    [] flag_type = "Unrealistic Salary (Too Low)"     -> 9
    [] flag_type = "Poor Job Description Quality"     -> 10
    [] flag_type = "Poor Grammar/Spelling"            -> 11
    [] flag_type = "Suspicious Company Name Pattern"  -> 12

(* C11: the flags list analyze returns is in rule-evaluation order: its types are
   a subsequence of Free Email Domain, Missing Company Website, Payment Request,
   Unrealistic Guarantees, Unrealistic Work-from-Home Offer, Excessive Urgency,
   Generic/Copy-Paste Content, Unrealistic Benefits, Unrealistic Salary (Too High
   or Too Low), Poor Job Description Quality, Poor Grammar/Spelling, Suspicious
   Company Name Pattern, and no type appears twice: the places of the listed types
   strictly increase along the list. *)
C11_FlagsInCatalogOrder ==
  \A t \in Callers :
    Done(t) =>
      \A i, j \in 1..Len(Flags(t)) :
        i < j => CatalogPlace(Flags(t)[i].type) < CatalogPlace(Flags(t)[j].type)

(* a returned list with flags of the keyword scan, the urgency scan, the salary
   check and the company-name check, from first place to last *)
C11_Witness ==
  /\ Done(1)
  /\ Len(Flags(1)) >= 8
  /\ Flags(1)[1].type = "Free Email Domain"
  /\ Has(1, "Payment Request")
  /\ Has(1, "Excessive Urgency")
  /\ Has(1, "Unrealistic Salary (Too Low)")
  /\ Flags(1)[Len(Flags(1))].type = "Suspicious Company Name Pattern"

(* the elements of a sequence *)
Range(f) == {f[i] : i \in DOMAIN f}

Reversed(order) == [i \in 1..Len(order) |-> order[Len(order) + 1 - i]]

Rotated(order, k) == [i \in 1..Len(order) |-> order[((i + k - 1) % Len(order)) + 1]]

Exchanged(order, i, j) ==
  [k \in 1..Len(order) |-> IF k = i THEN order[j] ELSE IF k = j THEN order[i] ELSE order[k]]

(* the other orders tried for the rule calls: the reverse, every rotation and
   every exchange of two neighbours *)
OtherOrders ==
  {Reversed(RuleOrder)}
    \cup {Rotated(RuleOrder, k) : k \in 1..(Len(RuleOrder) - 1)}
    \cup {Exchanged(RuleOrder, i, i + 1) : i \in 1..(Len(RuleOrder) - 1)}

(* C12: the rules are independent: when analyze returns, its rule routines run in
   any other order on the same inputs return too, with the same set of fired
   flags, the same risk_score and the same classification; only the order of the
   flags in the list differs. *)
C12_RulesIndependent ==
  \A t \in Callers :
    Done(t) =>
      \A order \in OtherOrders :
        LET other == analyze_in(order, args[t]) IN
          /\ other.kind = "returned"
          /\ Range(other.flags) = Range(Flags(t))
          /\ Len(other.flags) = Len(Flags(t))
          /\ other.risk_score = result[t].risk_score
          /\ other.classification = result[t].classification

(* a returned result of several flags, capped at 100, that the reversed order lists
   from the company-name flag back to the e-mail flag *)
C12_Witness ==
  /\ Done(1)
  /\ Len(Flags(1)) >= 8
  /\ result[1].risk_score = 100
  /\ LET other == analyze_in(Reversed(RuleOrder), args[1]).flags IN
       /\ other # Flags(1)
       /\ other[1].type = "Suspicious Company Name Pattern"
       /\ other[Len(other)].type = "Free Email Domain"

(* the space-separated words of a name *)
WordsOf(name) ==
  LET pieces == split(name, " ") IN {i \in 1..Len(pieces) : pieces[i] # <<>>}

(* the lower-cased company name holds one of the four legal-form words and has
   more than 4 space-separated words *)
LongLegalName(c) ==
  LET company_lower == lower(Companies[c]) IN
    /\ \/ Contains(company_lower, <<"p","r","i","v","a","t","e">>)
       \/ Contains(company_lower, <<"l","i","m","i","t","e","d">>)
       \/ Contains(company_lower, <<"c","o","r","p","o","r","a","t","i","o","n">>)
       \/ Contains(company_lower, <<"i","n","t","e","r","n","a","t","i","o","n","a","l">>)
    /\ Cardinality(WordsOf(company_lower)) > 4

(* C13: the company-name check emits 'Suspicious Company Name Pattern' exactly when
   the lower-cased company name contains one of private, limited, corporation,
   international and consists of more than 4 space-separated words, so that a
   5-word name with such a word is flagged. *)
C13_LongLegalNameFlagged ==
  \A t \in Callers :
    Done(t) =>
      (Has(t, "Suspicious Company Name Pattern") <=> LongLegalName(args[t].company_name))

(* the interface preconditions on the arguments a: the required fields are
   non-empty strings and the email contains '@' *)
Precondition(a) ==
  /\ Companies[a.company_name] # <<>>
  /\ Titles[a.job_title] # <<>>
  /\ DescriptionText(a.description) # <<>>
  /\ Emails[a.email] # <<>>
  /\ ~NoAt(Emails[a.email])

(* the rule calls of analyze with the mismatch check taken out *)
WithoutMismatchCheck == SubSeq(RuleOrder, 1, Len(RuleOrder) - 1)

(* C14: the e-mail/company mismatch check is a no-op: for every input that
   satisfies the interface preconditions it emits no flag, adds nothing to the
   score and does not make the call fail, so that analyze ends as it would with
   the check removed. *)
C14_MismatchCheckNoOp ==
  \A t \in Callers :
    (Ended(t) /\ Precondition(args[t])) =>
      Outcome(t) = analyze_in(WithoutMismatchCheck, args[t])

(* the salary band of a title: internship for a lower-cased title with intern,
   apprentice or fresher; otherwise entry level for one with junior, entry or
   associate; otherwise mid level *)
BandOf(job_title) ==
  LET title == lower(job_title) IN
  IF \/ Contains(title, <<"i","n","t","e","r","n">>)
     \/ Contains(title, <<"a","p","p","r","e","n","t","i","c","e">>)
     \/ Contains(title, <<"f","r","e","s","h","e","r">>)
    THEN [min |-> 5000, max |-> 500000]
  ELSE IF \/ Contains(title, <<"j","u","n","i","o","r">>)
          \/ Contains(title, <<"e","n","t","r","y">>)
          \/ Contains(title, <<"a","s","s","o","c","i","a","t","e">>)
    THEN [min |-> 200000, max |-> 3000000]
  ELSE [min |-> 500000, max |-> 5000000]

(* C15: the salary band comes from the lower-cased title with fixed precedence
   (internship words, else entry-level words, else mid level), and for the integer
   parsed from the first run of digits and commas of the salary the result carries
   'Unrealistic Salary (Too High)' exactly when the value is above the band's
   maximum and 'Unrealistic Salary (Too Low)' exactly when it is below the band's
   minimum; an intern title with salary 50000 gets no salary flag. *)
C15_SalaryBandByTitle ==
  \A t \in Callers :
    (Done(t) /\ ~Salaries[args[t].salary].is_none
             /\ ~NoIntegerIn(Salaries[args[t].salary].str)) =>
      LET value == salary_value(Salaries[args[t].salary].str).value
          band  == BandOf(Titles[args[t].job_title])
      IN  /\ Has(t, "Unrealistic Salary (Too High)") <=> value > band.max
          /\ Has(t, "Unrealistic Salary (Too Low)") <=> value < band.min

(* the call for an intern title with salary '50000 per day' has returned without
   a salary flag *)
C15_Witness ==
  /\ Done(1)
  /\ Titles[args[1].job_title] =
       <<"S","o","f","t","w","a","r","e"," ","E","n","g","i","n","e","e","r"," ","I","n","t","e","r","n">>
  /\ Salaries[args[1].salary] = Some(<<"5","0","0","0","0"," ","p","e","r"," ","d","a","y">>)
  /\ ~Has(1, "Unrealistic Salary (Too High)")
  /\ ~Has(1, "Unrealistic Salary (Too Low)")

(* the misspellings of the rule catalog *)
ListedMisspellings ==
  { <<"r","e","c","i","e","v","e">>,
    <<"o","c","c","u","r","e","d">>,
    <<"s","u","c","e","s","s","f","u","l">>,
    <<"a","p","p","l","i","c","a","t","o","n">>,
    <<"s","e","p","e","r","e","t","e">> }

(* the places of the text s where the word k starts *)
OccurrencesOf(k, s) ==
  {i \in 1..(Len(s) - Len(k) + 1) : SubSeq(s, i, i + Len(k) - 1) = k}

RECURSIVE SumOver(_, _)
SumOver(S, f) ==
  IF S = {} THEN 0
  ELSE LET x == CHOOSE y \in S : TRUE IN f[x] + SumOver(S \ {x}, f)

(* the occurrences of listed misspellings in the lower-cased description, a
   repeated misspelling counted each time *)
MisspellingOccurrences(d) ==
  LET text == lower(DescriptionText(d)) IN
  SumOver(ListedMisspellings,
          [k \in ListedMisspellings |-> Cardinality(OccurrencesOf(k, text))])

(* the listed misspellings that occur in the lower-cased description *)
MisspellingsPresent(d) ==
  LET text == lower(DescriptionText(d)) IN
  {k \in ListedMisspellings : OccurrencesOf(k, text) # {}}

(* C16 as stated: the description-quality check emits 'Poor Grammar/Spelling'
   exactly when the listed misspellings occur at least 2 times in the lower-cased
   description, two occurrences of the same misspelling counting as 2, whether or
   not 'Poor Job Description Quality' fires. *)
C16_OccurrencesCounted ==
  \A t \in Callers :
    Done(t) =>
      (Has(t, "Poor Grammar/Spelling") <=> MisspellingOccurrences(args[t].description) >= 2)

(* C16, amended: the description-quality check emits 'Poor Grammar/Spelling'
   exactly when at least 2 different listed misspellings occur in the lower-cased
   description, a misspelling counting once however often it occurs, whether or
   not 'Poor Job Description Quality' fires. *)
C16_DistinctMisspellingsCounted ==
  \A t \in Callers :
    Done(t) =>
      (Has(t, "Poor Grammar/Spelling")
         <=> Cardinality(MisspellingsPresent(args[t].description)) >= 2)

(* a returned result for a short description with two different misspellings:
   both flags of the check *)
C16_Witness ==
  /\ Done(1)
  /\ Cardinality(MisspellingsPresent(args[1].description)) = 2
  /\ Has(1, "Poor Job Description Quality")
  /\ Has(1, "Poor Grammar/Spelling")

(* C18: a result that analyze has returned is not altered by later calls made in
   turn on the shared engine: as long as a caller holds the result of its call,
   the flag list and the score it was handed keep their values through every step
   of every later call. *)
C18_ReturnedResultKept ==
  [][\A t \in Callers :
       (Done(t) /\ result'[t] = result[t]) => Outcome(t)' = Outcome(t)]_vars

(* caller 1 still holds the flags of its call after caller 2 has made two calls
   on the engine, the last with other flags in a list of its own *)
C18_Witness ==
  /\ call_count >= 3
  /\ Done(1) /\ Done(2)
  /\ Flags(1) # <<>>
  /\ Flags(2) # <<>>
  /\ Flags(1) # Flags(2)
  /\ result[1].detected_flags # result[2].detected_flags
  /\ detected_flags = result[2].detected_flags

(* C17: the /api/analyze handler invokes the engine only with inputs that satisfy
   its preconditions: after validation and sanitizing, the company_name,
   job_title, description and email it passes to analyze_job_offer are non-empty
   and the email contains '@'; hence the engine call of a request that passed
   validation never fails. *)
C17_EngineGetsValidInput ==
  handler_pc = "analysing" =>
    /\ Precondition(args[1])
    /\ result[1].kind \in {"none", "returned"}

(* the rows of the table flags that belong to the job row j *)
FlagRowsOf(j) == {f \in store.flags : f.job_id = j.id}

(* C19: persistence in /api/analyze is atomic per request: the store holds a job
   row only together with one flag row for every flag the engine returned for its
   posting, and no flag row without its job row; a request whose save fails
   leaves no row at all, and between requests no row is left in the session. *)
C19_JobSavedWithItsFlags ==
  /\ \A j \in store.jobs :
       LET returned == analyze(j.posting) IN
         /\ returned.kind = "returned"
         /\ j.risk_score = returned.risk_score
         /\ j.classification = returned.classification
         /\ Cardinality(FlagRowsOf(j)) = Len(returned.flags)
         /\ \A i \in 1..Len(returned.flags) :
              \E f \in FlagRowsOf(j) :
                /\ f.flag_type = returned.flags[i].type
                /\ f.description = returned.flags[i].description
                /\ f.severity = returned.flags[i].severity
  /\ \A f \in store.flags : \E j \in store.jobs : j.id = f.job_id
  /\ \A j, k \in store.jobs : j.id = k.id => j = k
  /\ handler_pc = "idle" => session = NoRows

(* the handler has answered 200 to two requests with flags: the first was saved,
   a job row with all its flag rows, and the save of the second, for another
   posting, was rolled back and left nothing *)
C19_Witness ==
  /\ handler_pc = "idle"
  /\ response.status = 200
  /\ Len(response.detected_flags) >= 3
  /\ call_count = 2
  /\ Cardinality(store.jobs) = 1
  /\ \A j \in store.jobs :
       /\ j.posting # args[1]
       /\ Cardinality(FlagRowsOf(j)) >= 3
       /\ Cardinality(FlagRowsOf(j)) = Cardinality(store.flags)
====
